---- MODULE Spec2Model ----
(***************************************************************************)
(* A model of the blog application in src/app.py: the three tables (User,  *)
(* Article, Comment), the login session of each client, and one action per *)
(* route handler.  The handlers whose store accesses can interleave with   *)
(* those of another request (register: two lookups and the insert;         *)
(* add_comment: the lookup of the article and the insert) are split at     *)
(* those accesses; req holds the position of each client's request.        *)
(***************************************************************************)
EXTENDS Integers, FiniteSets, Sequences, TLC

\* ------------------------------------------------------------------ bounds
MaxUsers == 2        \* rows ever inserted into User
MaxArticles == 2     \* rows ever inserted into Article
MaxComments == 2     \* rows ever inserted into Comment
MaxFlash == 3        \* messages ever flashed
MaxClock == 1        \* largest value of the clock read by datetime.utcnow

\* ------------------------------------------------------------- input sets
Sessions == {"s1", "s2"}
Usernames == {"alice", "bob"}
Emails == {"a@x.com", "b@x.com"}
Passwords == {"pw1", "pw2"}
Salts == {"salt1", "salt2"}
Titles == {"", "T"}
Contents == {"", "C"}
CommentContents == {"", "hi"}
Methods == {"GET", "POST"}

\* the ids of <int:article_id>: those of rows present, deleted and to come
ArticleIds == 1..MaxArticles

VARIABLES users, articles, comments, articleSeq, commentSeq, now,
          session, req, resp, foreign_keys,
          flashes, flashSeq, flashLog

vars == <<users, articles, comments, articleSeq, commentSeq, now,
          session, req, resp, foreign_keys,
          flashes, flashSeq, flashLog>>

store == <<users, articles, comments, articleSeq, commentSeq>>

\* ----------------------------------------------------------- pure helpers
\* werkzeug's salted one-way digest: the stored string carries the salt
\* and the digest of salt and password.
Digest(salt, password) == <<"pbkdf2", salt, password>>

generate_password_hash(salt, password) ==
    [salt |-> salt, digest |-> Digest(salt, password)]

\* a verification that compares no digest
check_password_hash_any(pwhash, password) == pwhash.salt \in Salts

check_password_hash(pwhash, password) ==
    pwhash.digest = Digest(pwhash.salt, password)

check_password(user, password) == check_password_hash(user.password_hash, password)

\* User.query.filter_by(username=...).first(): the set of matching rows
\* (empty when there is none).
UsersByUsername(username) == {u \in users : u.username = username}
UsersByEmail(email) == {u \in users : u.email = email}

\* Article.query.get(article_id)
ArticlesById(id) == {a \in articles : a.id = id}

\* the rows reached through the relationship Article.comments
CommentsOf(id) == {c \in comments : c.article_id = id}

\* current_user.is_authenticated: load_user finds the row of the id the
\* session carries
is_authenticated(s) == \E u \in users : u.id = session[s]

\* a User table declared without unique=True
UniqueViolation_undeclared(username, email) == FALSE

\* the unique constraints of User.username and User.email
UniqueViolation(username, email) ==
    \/ UsersByUsername(username) # {}
    \/ UsersByEmail(email) # {}

Idle == [pc |-> "idle"]

Response(status, view, msg) ==
    [status |-> status, view |-> view, msg |-> msg, listing |-> <<>>]

\* flask-login's answer to an anonymous request of a @login_required view
Unauthorized == Response(302, "login", "login_required")

\* ------------------------------------------------------------------- Init
\* no message has been flashed: every session's queue of flashed messages
\* is empty
NoFlash ==
    /\ flashes = [s \in Sessions |-> <<>>]
    /\ flashSeq = 0
    /\ flashLog = <<>>

\* a step seen apart from the queues of flashed messages
Quiet == UNCHANGED <<flashes, flashSeq, flashLog>>

Init ==
    /\ users = {}
    /\ articles = {}
    /\ comments = {}
    /\ articleSeq = 0
    /\ commentSeq = 0
    /\ now = 0
    /\ session = [s \in Sessions |-> 0]
    /\ req = [s \in Sessions |-> Idle]
    /\ resp = Response(0, "", "")
    /\ foreign_keys \in BOOLEAN
    /\ NoFlash

\* datetime.utcnow advances between requests
Tick ==
    /\ now < MaxClock
    /\ now' = now + 1
    /\ UNCHANGED <<store, session, req, resp, foreign_keys>>

\* ------------------------------------------------------------------ index
\* ORDER BY date_posted ASC
OrderByDatePostedAsc(rows) ==
    {l \in [1..Cardinality(rows) -> rows] :
        /\ \A i, j \in 1..Cardinality(rows) : i # j => l[i] # l[j]
        /\ \A i, j \in 1..Cardinality(rows) :
              i < j => l[i].date_posted <= l[j].date_posted}

\* the sequences of all rows of Article with no row before a newer one:
\* ORDER BY date_posted DESC leaves the order of equal timestamps open
OrderByDatePostedDesc(rows) ==
    {l \in [1..Cardinality(rows) -> rows] :
        /\ \A i, j \in 1..Cardinality(rows) : i # j => l[i] # l[j]
        /\ \A i, j \in 1..Cardinality(rows) :
              i < j => l[i].date_posted >= l[j].date_posted}

index(s) ==
    /\ req[s] = Idle
    /\ \E l \in OrderByDatePostedDesc(articles) :
          resp' = [Response(200, "index", "") EXCEPT
                      !.listing = [i \in DOMAIN l |-> l[i].id]]
    /\ UNCHANGED <<store, now, session, req, foreign_keys>>

\* login without the redirect of a logged-in caller
login_again(s, method, email, password) ==
    /\ req[s] = Idle
    /\ IF method = "POST"
          THEN IF \E user \in UsersByEmail(email) : check_password(user, password)
                  THEN /\ \E user \in UsersByEmail(email) :
                             session' = [session EXCEPT ![s] = user.id]
                       /\ resp' = Response(302, "index", "logged_in")
                  ELSE /\ resp' = Response(200, "login", "bad_credentials")
                       /\ UNCHANGED session
          ELSE /\ resp' = Response(200, "login", "")
               /\ UNCHANGED session
    /\ UNCHANGED <<store, now, req, foreign_keys>>

\* ------------------------------------------------------------------ login
login(s, method, email, password) ==
    /\ req[s] = Idle
    /\ IF is_authenticated(s)
          THEN /\ resp' = Response(302, "index", "")
               /\ UNCHANGED session
          ELSE IF method = "POST"
          THEN IF \E user \in UsersByEmail(email) : check_password(user, password)
                  THEN /\ \E user \in UsersByEmail(email) :
                             session' = [session EXCEPT ![s] = user.id]
                       /\ resp' = Response(302, "index", "logged_in")
                  ELSE /\ resp' = Response(200, "login", "bad_credentials")
                       /\ UNCHANGED session
          ELSE /\ resp' = Response(200, "login", "")
               /\ UNCHANGED session
    /\ UNCHANGED <<store, now, req, foreign_keys>>

\* ----------------------------------------------------------------- logout
logout(s) ==
    /\ req[s] = Idle
    /\ IF ~is_authenticated(s)
          THEN /\ resp' = Unauthorized
               /\ UNCHANGED session
          ELSE /\ session' = [session EXCEPT ![s] = 0]
               /\ resp' = Response(302, "index", "logged_out")
    /\ UNCHANGED <<store, now, req, foreign_keys>>

\* --------------------------------------------------------------- register
\* the clients whose register request is between two store accesses
Registering == {t \in Sessions : req[t].pc \in {"register_email", "register_commit"}}

\* register without its lookup by username
register_unchecked(s, username, email, password) ==
    /\ req[s] = Idle
    /\ IF is_authenticated(s)
          THEN /\ resp' = Response(302, "index", "")
               /\ UNCHANGED req
          ELSE /\ Cardinality(users) + Cardinality(Registering) < MaxUsers
               /\ req' = [req EXCEPT ![s] = [pc |-> "register_email",
                              username |-> username, email |-> email,
                              password |-> password]]
               /\ resp' = Response(0, "", "")
    /\ UNCHANGED <<store, now, session, foreign_keys>>

\* The request runs from its start to the lookup by username.
register(s, username, email, password) ==
    /\ req[s] = Idle
    /\ IF is_authenticated(s)
          THEN /\ resp' = Response(302, "index", "")
               /\ UNCHANGED req
          ELSE IF UsersByUsername(username) # {}
          THEN /\ resp' = Response(302, "login", "username_taken")
               /\ UNCHANGED req
          ELSE /\ Cardinality(users) + Cardinality(Registering) < MaxUsers
               /\ req' = [req EXCEPT ![s] = [pc |-> "register_email",
                              username |-> username, email |-> email,
                              password |-> password]]
               /\ resp' = Response(0, "", "")
    /\ UNCHANGED <<store, now, session, foreign_keys>>

\* the lookup by email
register_email(s) ==
    /\ req[s].pc = "register_email"
    /\ IF UsersByEmail(req[s].email) # {}
          THEN /\ resp' = Response(302, "login", "email_taken")
               /\ req' = [req EXCEPT ![s] = Idle]
          ELSE /\ req' = [req EXCEPT ![s].pc = "register_commit"]
               /\ resp' = Response(0, "", "")
    /\ UNCHANGED <<store, now, session, foreign_keys>>

\* db.session.add(new_user); db.session.commit(): the insert fails with an
\* IntegrityError when a unique constraint rejects the row, and the handler
\* does not catch it.
register_commit(s) ==
    /\ req[s].pc = "register_commit"
    /\ IF UniqueViolation(req[s].username, req[s].email)
          THEN /\ resp' = Response(500, "", "")
               /\ UNCHANGED users
          ELSE /\ \E salt \in Salts :
                     users' = users \cup
                        {[id |-> Cardinality(users) + 1,
                          username |-> req[s].username,
                          email |-> req[s].email,
                          password_hash |->
                              generate_password_hash(salt, req[s].password)]}
               /\ resp' = Response(302, "login", "registered")
    /\ req' = [req EXCEPT ![s] = Idle]
    /\ UNCHANGED <<articles, comments, articleSeq, commentSeq, now, session,
                   foreign_keys>>

\* ---------------------------------------------------------------- article
article(s, article_id) ==
    /\ req[s] = Idle
    /\ IF ArticlesById(article_id) = {}
          THEN resp' = Response(404, "", "")
          ELSE resp' = Response(200, "article", "")
    /\ UNCHANGED <<store, now, session, req, foreign_keys>>

\* ------------------------------------------------------------ new_article
\* new_article without the check of empty fields
new_article_unvalidated(s, method, title, content) ==
    /\ req[s] = Idle
    /\ IF ~is_authenticated(s)
          THEN /\ resp' = Unauthorized
               /\ UNCHANGED <<articles, articleSeq>>
          ELSE IF method = "POST"
          THEN /\ articleSeq < MaxArticles
               /\ articleSeq' = articleSeq + 1
               /\ articles' = articles \cup
                     {[id |-> articleSeq + 1, title |-> title,
                       content |-> content, date_posted |-> now,
                       user_id |-> session[s]]}
               /\ resp' = Response(302, "index", "article_posted")
          ELSE /\ resp' = Response(200, "edit_article", "")
               /\ UNCHANGED <<articles, articleSeq>>
    /\ UNCHANGED <<users, comments, commentSeq, now, session, req, foreign_keys>>

\* new_article without @login_required
new_article_open(s, method, title, content) ==
    /\ req[s] = Idle
    /\ IF method = "POST"
          THEN IF title = "" \/ content = ""
                  THEN /\ resp' = Response(200, "edit_article",
                                           "title_content_required")
                       /\ UNCHANGED <<articles, articleSeq>>
                  ELSE /\ articleSeq < MaxArticles
                       /\ articleSeq' = articleSeq + 1
                       /\ articles' = articles \cup
                             {[id |-> articleSeq + 1, title |-> title,
                               content |-> content, date_posted |-> now,
                               user_id |-> session[s]]}
                       /\ resp' = Response(302, "index", "article_posted")
          ELSE /\ resp' = Response(200, "edit_article", "")
               /\ UNCHANGED <<articles, articleSeq>>
    /\ UNCHANGED <<users, comments, commentSeq, now, session, req, foreign_keys>>

new_article(s, method, title, content) ==
    /\ req[s] = Idle
    /\ IF ~is_authenticated(s)
          THEN /\ resp' = Unauthorized
               /\ UNCHANGED <<articles, articleSeq>>
          ELSE IF method = "POST"
          THEN IF title = "" \/ content = ""
                  THEN /\ resp' = Response(200, "edit_article",
                                           "title_content_required")
                       /\ UNCHANGED <<articles, articleSeq>>
                  ELSE /\ articleSeq < MaxArticles
                       /\ articleSeq' = articleSeq + 1
                       /\ articles' = articles \cup
                             {[id |-> articleSeq + 1, title |-> title,
                               content |-> content, date_posted |-> now,
                               user_id |-> session[s]]}
                       /\ resp' = Response(302, "index",
                                           "article_posted")
          ELSE /\ resp' = Response(200, "edit_article", "")
               /\ UNCHANGED <<articles, articleSeq>>
    /\ UNCHANGED <<users, comments, commentSeq, now, session, req, foreign_keys>>

\* ----------------------------------------------------------- edit_article
\* edit_article with the check of empty fields that new_article makes
edit_article_validated(s, article_id, method, title, content) ==
    /\ req[s] = Idle
    /\ IF ~is_authenticated(s)
          THEN /\ resp' = Unauthorized
               /\ UNCHANGED articles
          ELSE IF ArticlesById(article_id) = {}
          THEN /\ resp' = Response(404, "", "")
               /\ UNCHANGED articles
          ELSE IF \E a \in ArticlesById(article_id) : a.user_id # session[s]
          THEN /\ resp' = Response(403, "", "")
               /\ UNCHANGED articles
          ELSE IF method = "POST" /\ (title = "" \/ content = "")
          THEN /\ resp' = Response(200, "edit_article", "title_content_required")
               /\ UNCHANGED articles
          ELSE IF method = "POST"
          THEN /\ articles' =
                     {IF a.id = article_id
                         THEN [a EXCEPT !.title = title, !.content = content]
                         ELSE a : a \in articles}
               /\ resp' = Response(302, "article", "article_updated")
          ELSE /\ resp' = Response(200, "edit_article", "")
               /\ UNCHANGED articles
    /\ UNCHANGED <<users, comments, articleSeq, commentSeq, now, session, req,
                   foreign_keys>>

\* edit_article without the comparison of author and current_user
edit_article_any(s, article_id, method, title, content) ==
    /\ req[s] = Idle
    /\ IF ~is_authenticated(s)
          THEN /\ resp' = Unauthorized
               /\ UNCHANGED articles
          ELSE IF ArticlesById(article_id) = {}
          THEN /\ resp' = Response(404, "", "")
               /\ UNCHANGED articles
          ELSE IF method = "POST"
          THEN /\ articles' =
                     {IF a.id = article_id
                         THEN [a EXCEPT !.title = title, !.content = content]
                         ELSE a : a \in articles}
               /\ resp' = Response(302, "article", "article_updated")
          ELSE /\ resp' = Response(200, "edit_article", "")
               /\ UNCHANGED articles
    /\ UNCHANGED <<users, comments, articleSeq, commentSeq, now, session, req,
                   foreign_keys>>

\* edit_article on a column date_posted that is set again on every update
edit_article_touch(s, article_id, method, title, content) ==
    /\ req[s] = Idle
    /\ IF ~is_authenticated(s)
          THEN /\ resp' = Unauthorized
               /\ UNCHANGED articles
          ELSE IF ArticlesById(article_id) = {}
          THEN /\ resp' = Response(404, "", "")
               /\ UNCHANGED articles
          ELSE IF \E a \in ArticlesById(article_id) : a.user_id # session[s]
          THEN /\ resp' = Response(403, "", "")
               /\ UNCHANGED articles
          ELSE IF method = "POST"
          THEN /\ articles' =
                     {IF a.id = article_id
                         THEN [a EXCEPT !.title = title, !.content = content,
                                        !.date_posted = now]
                         ELSE a : a \in articles}
               /\ resp' = Response(302, "article",
                                   "article_updated")
          ELSE /\ resp' = Response(200, "edit_article", "")
               /\ UNCHANGED articles
    /\ UNCHANGED <<users, comments, articleSeq, commentSeq, now, session, req,
                   foreign_keys>>

edit_article(s, article_id, method, title, content) ==
    /\ req[s] = Idle
    /\ IF ~is_authenticated(s)
          THEN /\ resp' = Unauthorized
               /\ UNCHANGED articles
          ELSE IF ArticlesById(article_id) = {}
          THEN /\ resp' = Response(404, "", "")
               /\ UNCHANGED articles
          ELSE IF \E a \in ArticlesById(article_id) : a.user_id # session[s]
          THEN /\ resp' = Response(403, "", "")
               /\ UNCHANGED articles
          ELSE IF method = "POST"
          THEN /\ articles' =
                     {IF a.id = article_id
                         THEN [a EXCEPT !.title = title, !.content = content]
                         ELSE a : a \in articles}
               /\ resp' = Response(302, "article",
                                   "article_updated")
          ELSE /\ resp' = Response(200, "edit_article", "")
               /\ UNCHANGED articles
    /\ UNCHANGED <<users, comments, articleSeq, commentSeq, now, session, req,
                   foreign_keys>>

\* --------------------------------------------------------- delete_article
\* delete_article with a relationship Article.comments that does not cascade
delete_article_nocascade(s, article_id) ==
    /\ req[s] = Idle
    /\ IF ~is_authenticated(s)
          THEN /\ resp' = Unauthorized
               /\ UNCHANGED <<articles, comments>>
          ELSE IF ArticlesById(article_id) = {}
          THEN /\ resp' = Response(404, "", "")
               /\ UNCHANGED <<articles, comments>>
          ELSE IF \E a \in ArticlesById(article_id) : a.user_id # session[s]
          THEN /\ resp' = Response(403, "", "")
               /\ UNCHANGED <<articles, comments>>
          ELSE /\ articles' = articles \ ArticlesById(article_id)
               /\ UNCHANGED comments
               /\ resp' = Response(302, "index", "article_deleted")
    /\ UNCHANGED <<users, articleSeq, commentSeq, now, session, req,
                   foreign_keys>>

\* db.session.delete removes the row and, through the relationship
\* Article.comments (cascade="all, delete-orphan"), its comments.
delete_article(s, article_id) ==
    /\ req[s] = Idle
    /\ IF ~is_authenticated(s)
          THEN /\ resp' = Unauthorized
               /\ UNCHANGED <<articles, comments>>
          ELSE IF ArticlesById(article_id) = {}
          THEN /\ resp' = Response(404, "", "")
               /\ UNCHANGED <<articles, comments>>
          ELSE IF \E a \in ArticlesById(article_id) : a.user_id # session[s]
          THEN /\ resp' = Response(403, "", "")
               /\ UNCHANGED <<articles, comments>>
          ELSE /\ articles' = articles \ ArticlesById(article_id)
               /\ comments' = comments \ CommentsOf(article_id)
               /\ resp' = Response(302, "index",
                                   "article_deleted")
    /\ UNCHANGED <<users, articleSeq, commentSeq, now, session, req,
                   foreign_keys>>

\* ------------------------------------------------------------ add_comment
\* the clients whose add_comment request is between its lookup and its insert
Commenting == {t \in Sessions : req[t].pc = "add_comment_commit"}

\* add_comment without the check of empty content
add_comment_unvalidated(s, article_id, content) ==
    /\ req[s] = Idle
    /\ IF ~is_authenticated(s)
          THEN /\ resp' = Unauthorized
               /\ UNCHANGED req
          ELSE IF ArticlesById(article_id) = {}
          THEN /\ resp' = Response(404, "", "")
               /\ UNCHANGED req
          ELSE /\ commentSeq + Cardinality(Commenting) < MaxComments
               /\ req' = [req EXCEPT ![s] = [pc |-> "add_comment_commit",
                              article_id |-> article_id, content |-> content,
                              user_id |-> session[s]]]
               /\ resp' = Response(0, "", "")
    /\ UNCHANGED <<store, now, session, foreign_keys>>

\* add_comment with Article.query.get in place of get_or_404
add_comment_get(s, article_id, content) ==
    /\ req[s] = Idle
    /\ IF ~is_authenticated(s)
          THEN /\ resp' = Unauthorized
               /\ UNCHANGED req
          ELSE IF content = ""
          THEN /\ resp' = Response(302, "article", "comment_required")
               /\ UNCHANGED req
          ELSE /\ commentSeq + Cardinality(Commenting) < MaxComments
               /\ req' = [req EXCEPT ![s] = [pc |-> "add_comment_commit",
                              article_id |-> article_id, content |-> content,
                              user_id |-> session[s]]]
               /\ resp' = Response(0, "", "")
    /\ UNCHANGED <<store, now, session, foreign_keys>>

\* The request runs from its start to the check of the submitted content.
add_comment(s, article_id, content) ==
    /\ req[s] = Idle
    /\ IF ~is_authenticated(s)
          THEN /\ resp' = Unauthorized
               /\ UNCHANGED req
          ELSE IF ArticlesById(article_id) = {}
          THEN /\ resp' = Response(404, "", "")
               /\ UNCHANGED req
          ELSE IF content = ""
          THEN /\ resp' = Response(302, "article",
                                   "comment_required")
               /\ UNCHANGED req
          ELSE /\ commentSeq + Cardinality(Commenting) < MaxComments
               /\ req' = [req EXCEPT ![s] = [pc |-> "add_comment_commit",
                              article_id |-> article_id, content |-> content,
                              user_id |-> session[s]]]
               /\ resp' = Response(0, "", "")
    /\ UNCHANGED <<store, now, session, foreign_keys>>

\* db.session.add(new_comment); db.session.commit(): the row carries the id
\* of the article read before.  When that article is gone, a store that
\* enforces foreign keys rejects the insert (IntegrityError, not caught);
\* one that does not (SQLite's default) keeps the row.
add_comment_commit(s) ==
    /\ req[s].pc = "add_comment_commit"
    /\ IF /\ foreign_keys
          /\ \/ ArticlesById(req[s].article_id) = {}
             \/ ~\E u \in users : u.id = req[s].user_id
          THEN /\ resp' = Response(500, "", "")
               /\ UNCHANGED <<comments, commentSeq>>
          ELSE /\ commentSeq' = commentSeq + 1
               /\ comments' = comments \cup
                     {[id |-> commentSeq + 1, content |-> req[s].content,
                       date_posted |-> now, user_id |-> req[s].user_id,
                       article_id |-> req[s].article_id]}
               /\ resp' = Response(302, "article",
                                   "comment_posted")
    /\ req' = [req EXCEPT ![s] = Idle]
    /\ UNCHANGED <<users, articles, articleSeq, now, session, foreign_keys>>

\* ------------------------------------------------------------ delete_user
\* db.session.delete of a User whose relationship Article.comments does not
\* cascade
delete_user_shallow(user_id) ==
    /\ \E u \in users : u.id = user_id
    /\ users' = {u \in users : u.id # user_id}
    /\ articles' = {a \in articles : a.user_id # user_id}
    /\ comments' = {c \in comments : c.user_id # user_id}
    /\ UNCHANGED <<articleSeq, commentSeq, now, session, req, resp,
                   foreign_keys>>

\* db.session.delete of a User and commit, which no route calls: the
\* relationships User.articles and User.comments (cascade="all,
\* delete-orphan") remove the user's articles and comments, and
\* Article.comments removes the comments of those articles.
delete_user(user_id) ==
    /\ \E u \in users : u.id = user_id
    /\ users' = {u \in users : u.id # user_id}
    /\ articles' = {a \in articles : a.user_id # user_id}
    /\ comments' = {c \in comments :
                       /\ c.user_id # user_id
                       /\ \A a \in articles :
                             a.user_id = user_id => c.article_id # a.id}
    /\ UNCHANGED <<articleSeq, commentSeq, now, session, req, resp,
                   foreign_keys>>

\* ------------------------------------------------------------------ flash
\* flash that drops the message
flash_dropped(queue, msg) == queue

\* flask.flash(message, category): the message joins the queue that the
\* session keeps; its id tells it from every other flashed message
flash(queue, msg) == Append(queue, [id |-> flashSeq + 1, msg |-> msg])

\* a template that shows the queued messages and leaves them queued
render_template_again(s, queue, log) ==
    /\ flashes' = [flashes EXCEPT ![s] = queue]
    /\ flashLog' = [id \in DOMAIN log |->
                      IF \E i \in DOMAIN queue : queue[i].id = id
                         THEN [log[id] EXCEPT !.shown = Append(@, s)]
                         ELSE log[id]]

\* render_template: the page shows every message queued for the session of
\* the request and the queue is cleared
render_template(s, queue, log) ==
    /\ flashes' = [flashes EXCEPT ![s] = <<>>]
    /\ flashLog' = [id \in DOMAIN log |->
                      IF \E i \in DOMAIN queue : queue[i].id = id
                         THEN [log[id] EXCEPT !.shown = Append(@, s)]
                         ELSE log[id]]

\* What the answer of a handler to session s does to the queues: a message
\* the handler flashed is queued for s, a rendered page (status 200) shows
\* and clears the queue of s, a redirect or an error page leaves it.
\* flashLog records, for every message, the session it was flashed in and
\* the sessions whose pages showed it.
Answered(s) ==
    /\ resp'.msg # "" => flashSeq < MaxFlash
    /\ LET queue == IF resp'.msg = "" THEN flashes[s]
                                     ELSE flash(flashes[s], resp'.msg)
           log == IF resp'.msg = "" THEN flashLog
                     ELSE Append(flashLog, [session |-> s, shown |-> <<>>])
       IN  /\ flashSeq' = Len(log)
           /\ IF resp'.status = 200
                 THEN render_template(s, queue, log)
                 ELSE /\ flashes' = [flashes EXCEPT ![s] = queue]
                      /\ flashLog' = log

\* ------------------------------------------------------------------- Next
Next ==
    \/ Tick /\ Quiet
    \/ \E s \in Sessions : index(s) /\ Quiet
    \/ \E s \in Sessions, method \in Methods, email \in Emails,
          password \in Passwords : login(s, method, email, password) /\ Quiet
    \/ \E s \in Sessions : logout(s) /\ Quiet
    \/ \E s \in Sessions, username \in Usernames, email \in Emails,
          password \in Passwords : register(s, username, email, password) /\ Quiet
    \/ \E s \in Sessions : register_email(s) /\ Quiet
    \/ \E s \in Sessions : register_commit(s) /\ Quiet
    \/ \E s \in Sessions, article_id \in ArticleIds : article(s, article_id) /\ Quiet
    \/ \E s \in Sessions, method \in Methods, title \in Titles,
          content \in Contents : new_article(s, method, title, content) /\ Quiet
    \/ \E s \in Sessions, article_id \in ArticleIds, method \in Methods,
          title \in Titles, content \in Contents :
             edit_article(s, article_id, method, title, content) /\ Quiet
    \/ \E s \in Sessions, article_id \in ArticleIds : delete_article(s, article_id) /\ Quiet
    \/ \E s \in Sessions, article_id \in ArticleIds, content \in CommentContents :
          add_comment(s, article_id, content) /\ Quiet
    \/ \E s \in Sessions : add_comment_commit(s) /\ Quiet

\* every request of every client, from the empty store
Spec == Init /\ [][Next]_vars

\* ---------------------------------------------------------------- accounts
\* The requests that read or write User and the session, from the empty
\* store, by two clients: registration with its interleavings, login, logout.
NextAccounts ==
    \/ \E s \in Sessions, method \in Methods, email \in Emails,
          password \in Passwords : login(s, method, email, password) /\ Quiet
    \/ \E s \in Sessions : logout(s) /\ Quiet
    \/ \E s \in Sessions, username \in Usernames, email \in Emails,
          password \in Passwords : register(s, username, email, password) /\ Quiet
    \/ \E s \in Sessions : register_email(s) /\ Quiet
    \/ \E s \in Sessions : register_commit(s) /\ Quiet

SpecAccounts == Init /\ [][NextAccounts]_vars

\* ----------------------------------------------------------------- content
\* The store after alice and bob have registered, nobody logged in, with
\* SQLite's default of unenforced foreign keys.
InitRegistered ==
    /\ users = {[id |-> 1, username |-> "alice", email |-> "a@x.com",
                 password_hash |-> generate_password_hash("salt1", "pw1")],
                [id |-> 2, username |-> "bob", email |-> "b@x.com",
                 password_hash |-> generate_password_hash("salt1", "pw2")]}
    /\ articles = {}
    /\ comments = {}
    /\ articleSeq = 0
    /\ commentSeq = 0
    /\ now = 0
    /\ session = [s \in Sessions |-> 0]
    /\ req = [s \in Sessions |-> Idle]
    /\ resp = Response(0, "", "")
    /\ foreign_keys = FALSE
    /\ NoFlash

\* one client, whose requests therefore run one after the other
OneClient == {"s1"}

\* The requests of one client that write Article and list it, with the
\* clock, login and logout.
NextListing ==
    \/ Tick /\ Quiet
    \/ \E s \in OneClient : index(s) /\ Quiet
    \/ \E s \in OneClient, method \in Methods, email \in Emails,
          password \in Passwords : login(s, method, email, password) /\ Quiet
    \/ \E s \in OneClient : logout(s) /\ Quiet
    \/ \E s \in OneClient, method \in Methods, title \in Titles,
          content \in Contents : new_article(s, method, title, content) /\ Quiet
    \/ \E s \in OneClient, article_id \in ArticleIds : delete_article(s, article_id) /\ Quiet

SpecListing == InitRegistered /\ [][NextListing]_vars

\* The requests of one client that read or write Article, at one reading of
\* the clock, with login and logout; any form is submitted.
NextArticles ==
    \/ \E s \in OneClient, method \in Methods, email \in Emails,
          password \in Passwords : login(s, method, email, password) /\ Quiet
    \/ \E s \in OneClient : logout(s) /\ Quiet
    \/ \E s \in OneClient, article_id \in ArticleIds : article(s, article_id) /\ Quiet
    \/ \E s \in OneClient, method \in Methods, title \in Titles,
          content \in Contents : new_article(s, method, title, content) /\ Quiet
    \/ \E s \in OneClient, article_id \in ArticleIds, method \in Methods,
          title \in Titles, content \in Contents :
             edit_article(s, article_id, method, title, content) /\ Quiet
    \/ \E s \in OneClient, article_id \in ArticleIds : delete_article(s, article_id) /\ Quiet

SpecArticles == InitRegistered /\ [][NextArticles]_vars

\* The requests of one client that read or write Article and Comment, at one
\* reading of the clock, with login and logout; an edit submits a non-empty
\* title and a non-empty content.
NextComments ==
    \/ \E s \in OneClient, method \in Methods, email \in Emails,
          password \in Passwords : login(s, method, email, password) /\ Quiet
    \/ \E s \in OneClient : logout(s) /\ Quiet
    \/ \E s \in OneClient, article_id \in ArticleIds : article(s, article_id) /\ Quiet
    \/ \E s \in OneClient, method \in Methods, title \in Titles,
          content \in Contents : new_article(s, method, title, content) /\ Quiet
    \/ \E s \in OneClient, article_id \in ArticleIds, method \in Methods,
          title \in Titles \ {""}, content \in Contents \ {""} :
             edit_article(s, article_id, method, title, content) /\ Quiet
    \/ \E s \in OneClient, article_id \in ArticleIds : delete_article(s, article_id) /\ Quiet
    \/ \E s \in OneClient, article_id \in ArticleIds, content \in CommentContents :
          add_comment(s, article_id, content) /\ Quiet
    \/ \E s \in OneClient : add_comment_commit(s) /\ Quiet

SpecComments == InitRegistered /\ [][NextComments]_vars

\* -------------------------------------------------------------------- race
\* The store after alice and bob have registered, under either setting of
\* the enforcement of foreign keys.
InitRace ==
    /\ users = {[id |-> 1, username |-> "alice", email |-> "a@x.com",
                 password_hash |-> generate_password_hash("salt1", "pw1")],
                [id |-> 2, username |-> "bob", email |-> "b@x.com",
                 password_hash |-> generate_password_hash("salt1", "pw2")]}
    /\ articles = {}
    /\ comments = {}
    /\ articleSeq = 0
    /\ commentSeq = 0
    /\ now = 0
    /\ session = [s \in Sessions |-> 0]
    /\ req = [s \in Sessions |-> Idle]
    /\ resp = Response(0, "", "")
    /\ foreign_keys \in BOOLEAN
    /\ NoFlash

\* The requests of two clients that write Article and Comment: the lookup
\* and the insert of an add_comment request interleave with the requests of
\* the other client.
NextRace ==
    \/ \E s \in Sessions, method \in Methods, email \in Emails,
          password \in Passwords : login(s, method, email, password) /\ Quiet
    \/ \E s \in Sessions, method \in Methods, title \in Titles,
          content \in Contents : new_article(s, method, title, content) /\ Quiet
    \/ \E s \in Sessions, article_id \in ArticleIds : delete_article(s, article_id) /\ Quiet
    \/ \E s \in Sessions, article_id \in ArticleIds, content \in CommentContents :
          add_comment(s, article_id, content) /\ Quiet
    \/ \E s \in Sessions : add_comment_commit(s) /\ Quiet

SpecRace == InitRace /\ [][NextRace]_vars

\* ------------------------------------------------------------ user removal
\* The requests of one client that write and read Article and Comment with
\* valid forms, with login and logout, and the removal of users through the
\* store.
NextUsers ==
    \/ \E s \in OneClient : index(s) /\ Quiet
    \/ \E s \in OneClient, email \in Emails, password \in Passwords :
          login(s, "POST", email, password) /\ Quiet
    \/ \E s \in OneClient : logout(s) /\ Quiet
    \/ \E s \in OneClient, article_id \in ArticleIds : article(s, article_id) /\ Quiet
    \/ \E s \in OneClient, title \in Titles \ {""}, content \in Contents \ {""} :
          new_article(s, "POST", title, content) /\ Quiet
    \/ \E s \in OneClient, article_id \in ArticleIds,
          content \in CommentContents \ {""} :
             add_comment(s, article_id, content) /\ Quiet
    \/ \E s \in OneClient : add_comment_commit(s) /\ Quiet
    \/ \E user_id \in 1..MaxUsers : delete_user(user_id) /\ Quiet

SpecUsers == InitRegistered /\ [][NextUsers]_vars

\* ------------------------------------------------------------------ frame
\* Every operation that writes Article or Comment, by one client, while the
\* clock advances: articles and comments are created from valid forms,
\* articles are edited with any form and deleted, users are removed through
\* the store.
NextFrame ==
    \/ Tick /\ Quiet
    \/ \E s \in OneClient, email \in Emails, password \in Passwords :
          login(s, "POST", email, password) /\ Quiet
    \/ \E s \in OneClient : logout(s) /\ Quiet
    \/ \E s \in OneClient, title \in Titles \ {""}, content \in Contents \ {""} :
          new_article(s, "POST", title, content) /\ Quiet
    \/ \E s \in OneClient, article_id \in ArticleIds, title \in Titles,
          content \in Contents :
             edit_article(s, article_id, "POST", title, content) /\ Quiet
    \/ \E s \in OneClient, article_id \in ArticleIds : delete_article(s, article_id) /\ Quiet
    \/ \E s \in OneClient, article_id \in ArticleIds,
          content \in CommentContents \ {""} :
             add_comment(s, article_id, content) /\ Quiet
    \/ \E s \in OneClient : add_comment_commit(s) /\ Quiet
    \/ \E user_id \in 1..MaxUsers : delete_user(user_id) /\ Quiet

SpecFrame == InitRegistered /\ [][NextFrame]_vars

\* ----------------------------------------------------------------- flashes
\* The store after alice has registered and posted one article.
InitFlash ==
    /\ users = {[id |-> 1, username |-> "alice", email |-> "a@x.com",
                 password_hash |-> generate_password_hash("salt1", "pw1")]}
    /\ articles = {[id |-> 1, title |-> "T", content |-> "C",
                    date_posted |-> 0, user_id |-> 1]}
    /\ comments = {}
    /\ articleSeq = 1
    /\ commentSeq = 0
    /\ now = 0
    /\ session = [s \in Sessions |-> 0]
    /\ req = [s \in Sessions |-> Idle]
    /\ resp = Response(0, "", "")
    /\ foreign_keys = FALSE
    /\ NoFlash

\* The requests of two clients that flash or render without writing to the
\* store, each with what its answer does to the queues of flashed messages:
\* the pages, login, logout, register with an email in use and add_comment
\* with an empty content.
NextFlash ==
    \/ \E s \in Sessions : index(s) /\ Answered(s)
    \/ \E s \in Sessions, method \in Methods, email \in Emails,
          password \in Passwords :
             login(s, method, email, password) /\ Answered(s)
    \/ \E s \in Sessions : logout(s) /\ Answered(s)
    \/ \E s \in Sessions, username \in Usernames, user \in users :
          register(s, username, user.email, "pw2") /\ Answered(s)
    \/ \E s \in Sessions : register_email(s) /\ Answered(s)
    \/ \E s \in Sessions, article_id \in ArticleIds :
          article(s, article_id) /\ Answered(s)
    \/ \E s \in Sessions, article_id \in ArticleIds :
          add_comment(s, article_id, "") /\ Answered(s)

SpecFlash == InitFlash /\ [][NextFlash]_vars

\* ================================================================ claims
ArticleIdsInUse == {a.id : a \in articles}
UserIdsInUse == {u.id : u \in users}

\* the password p is the one the row u was registered with
RegisteredWith(u, p) ==
    \E salt \in Salts : u.password_hash = generate_password_hash(salt, p)

\* C1: an edit_article (GET or POST) or delete_article request by a logged-in
\* user who is not the article's owner is answered 403 and leaves every
\* article (title, content, owner), every comment and every user as it was.
C1_NonOwnerForbidden ==
    [][\A s \in Sessions, id \in ArticleIds :
          (/\ session[s] # 0
           /\ \E a \in articles : a.id = id /\ a.user_id # session[s]
           /\ \/ delete_article(s, id)
              \/ \E m \in Methods, t \in Titles, c \in Contents :
                    edit_article(s, id, m, t, c))
          => (/\ resp'.status = 403
              /\ articles' = articles
              /\ comments' = comments
              /\ users' = users)]_vars

\* a non-owner has been answered 403 on an article that has a comment
C1_Witness ==
    /\ resp.status = 403
    /\ \E s \in Sessions, a \in articles :
          /\ session[s] # 0
          /\ a.user_id # session[s]
          /\ CommentsOf(a.id) # {}

\* C2: a login with the credentials of user U leaves the session identifying
\* U, a logout leaves it anonymous, and every request of an anonymous session
\* to logout, new_article, edit_article, delete_article or add_comment is
\* redirected to the login view and changes neither store nor session.
C2_AnonymousTurnedAway ==
    [][\A s \in Sessions :
          /\ \A u \in users, p \in Passwords :
                (session[s] = 0 /\ RegisteredWith(u, p)
                    /\ login(s, "POST", u.email, p))
                => session'[s] = u.id
          /\ (session[s] # 0 /\ logout(s)) => session'[s] = 0
          /\ (/\ session[s] = 0
              /\ \/ logout(s)
                 \/ \E m \in Methods, t \in Titles, c \in Contents :
                       new_article(s, m, t, c)
                 \/ \E id \in ArticleIds, m \in Methods, t \in Titles,
                       c \in Contents : edit_article(s, id, m, t, c)
                 \/ \E id \in ArticleIds : delete_article(s, id)
                 \/ \E id \in ArticleIds, c \in CommentContents :
                       add_comment(s, id, c))
             => (/\ resp'.status = 302
                 /\ resp'.view = "login"
                 /\ store' = store
                 /\ session' = session
                 /\ req' = req)]_vars

\* an anonymous request was turned away after a user had logged in, written
\* an article and a comment, and logged out
C2_Witness ==
    /\ resp = Unauthorized
    /\ \A s \in Sessions : session[s] = 0
    /\ articles # {}
    /\ comments # {}

\* C3: a register request whose username is taken when it is looked up, or
\* whose email is taken when it is looked up, is answered by a redirect to
\* the login view with a message and inserts and changes no row; no step of
\* any request ever changes or removes a User row, and an insert of a taken
\* username or email adds none.
C3_DuplicateRegisterRejected ==
    [][\A s \in Sessions :
          /\ \A u \in Usernames, e \in Emails, p \in Passwords :
                (/\ session[s] = 0
                 /\ \E row \in users : row.username = u
                 /\ register(s, u, e, p))
                => (/\ users' = users
                    /\ resp' = Response(302, "login", "username_taken")
                    /\ req'[s] = Idle)
          /\ (/\ req[s].pc = "register_email"
              /\ \E row \in users : row.email = req[s].email
              /\ register_email(s))
             => (/\ users' = users
                 /\ resp' = Response(302, "login", "email_taken")
                 /\ req'[s] = Idle)
          /\ (/\ req[s].pc = "register_commit"
              /\ \E row \in users : \/ row.username = req[s].username
                                    \/ row.email = req[s].email
              /\ register_commit(s))
             => users' = users
          /\ users \subseteq users']_vars

\* a registration with the email of the one stored User was turned away
C3_Witness ==
    /\ Cardinality(users) = 1
    /\ resp.status = 302
    /\ resp.view = "login"
    /\ resp.msg = "email_taken"

\* C4: no two User rows have the same username, and no two the same email,
\* in every state reached by interleaved register requests.
C4_UniqueUsernameEmail ==
    \A u1, u2 \in users :
        u1 # u2 => /\ u1.username # u2.username
                   /\ u1.email # u2.email
                   /\ u1.id # u2.id

\* two register requests passed their lookups and the constraint rejected
\* the insert of the second
C4_Witness ==
    /\ resp.status = 500
    /\ users # {}

\* C5: when the unique constraint rejects the insert of a register request
\* that passed its lookups, the request ends in a redirect with a message,
\* not in an unhandled failure.
C5_ConstraintViolationHandled ==
    [][\A s \in Sessions :
          (/\ req[s].pc = "register_commit"
           /\ UniqueViolation(req[s].username, req[s].email)
           /\ register_commit(s))
          => (/\ resp'.status = 302
              /\ resp'.msg # "")]_vars

\* C6: a login POST of an anonymous session logs in the user U exactly when
\* a row U has the submitted email and was registered with the submitted
\* password; otherwise the session stays anonymous and the answer is the
\* same view and message for an unknown email and for a wrong password; the
\* store is unchanged either way.
C6_LoginIffCredentials ==
    [][\A s \in Sessions, e \in Emails, p \in Passwords :
          (session[s] = 0 /\ login(s, "POST", e, p))
          => (/\ store' = store
              /\ \A t \in Sessions \ {s} : session'[t] = session[t]
              /\ IF \E u \in users : u.email = e /\ RegisteredWith(u, p)
                    THEN /\ \E u \in users :
                               /\ u.email = e
                               /\ RegisteredWith(u, p)
                               /\ session'[s] = u.id
                         /\ resp'.status = 302
                    ELSE /\ session'[s] = 0
                         /\ resp' = Response(200, "login", "bad_credentials"))]_vars

\* a login was refused while one user is registered and another session is
\* logged in: the refused login had an unknown email or a wrong password
C6_Witness ==
    /\ resp = Response(200, "login", "bad_credentials")
    /\ Cardinality(users) = 1
    /\ \E s, t \in Sessions : session[s] # 0 /\ session[t] = 0

\* C7: a new_article POST with non-empty title and content by a session of
\* user U adds exactly one Article, owned by U, with the submitted title and
\* content and a fresh id, and changes no other row; the listing holds every
\* Article exactly once and no Article before one with a newer timestamp.
C7_NewArticleListedNewestFirst ==
    [][\A s \in Sessions :
          /\ \A t \in Titles \ {""}, c \in Contents \ {""} :
                (session[s] # 0 /\ new_article(s, "POST", t, c))
                => (/\ \E a \in articles' :
                          /\ a.id \notin ArticleIdsInUse
                          /\ articles' = articles \cup {a}
                          /\ a.user_id = session[s]
                          /\ a.title = t
                          /\ a.content = c
                    /\ Cardinality(articles') = Cardinality(articles) + 1
                    /\ users' = users
                    /\ comments' = comments)
          /\ index(s)
             => (/\ resp'.status = 200
                 /\ Len(resp'.listing) = Cardinality(articles)
                 /\ {resp'.listing[i] : i \in DOMAIN resp'.listing}
                       = ArticleIdsInUse
                 /\ \A i, j \in DOMAIN resp'.listing :
                       \A a, b \in articles :
                          (i < j /\ a.id = resp'.listing[i]
                                 /\ b.id = resp'.listing[j])
                          => a.date_posted >= b.date_posted)]_vars

\* the listing shows two articles, the one with the newer timestamp first
C7_Witness ==
    /\ resp.view = "index"
    /\ Len(resp.listing) = 2
    /\ \E a, b \in articles :
          /\ a.date_posted > b.date_posted
          /\ resp.listing = <<a.id, b.id>>

\* C8: a delete_article request by the owner of article A removes A and the
\* comments of A and nothing else: the other articles, the comments of other
\* articles and the users are as before; a view of an id is answered 404
\* exactly when no Article has that id, so a view of A's id after it is.
C8_DeleteCascades ==
    [][\A s \in Sessions, id \in ArticleIds :
          /\ (/\ session[s] # 0
              /\ \E a \in articles : a.id = id /\ a.user_id = session[s]
              /\ delete_article(s, id))
             => (/\ articles' = {a \in articles : a.id # id}
                 /\ comments' = {c \in comments : c.article_id # id}
                 /\ users' = users
                 /\ session' = session
                 /\ resp'.status = 302)
          /\ article(s, id)
             => (/\ resp'.status = IF id \in ArticleIdsInUse THEN 200 ELSE 404
                 /\ store' = store)]_vars

\* an article was deleted and a comment went with it, while an article and
\* a comment on it remain
C8_Witness ==
    /\ resp.msg = "article_deleted"
    /\ Cardinality(comments) < commentSeq
    /\ \E c \in comments : c.article_id \in ArticleIdsInUse

\* C9: while requests run one after the other, every Article refers to an
\* existing User and every Comment to an existing User and an existing
\* Article.
C9_NoOrphans ==
    /\ \A a \in articles : a.user_id \in UserIdsInUse
    /\ \A c \in comments : /\ c.user_id \in UserIdsInUse
                           /\ c.article_id \in ArticleIdsInUse

\* an article with a comment was deleted and another comment remains
C9_Witness ==
    /\ Cardinality(articles) < articleSeq
    /\ Cardinality(comments) < commentSeq
    /\ comments # {}

\* C10: every stored Article has a non-empty title and a non-empty content.
C10_NonEmptyTitleContent ==
    \A a \in articles : a.title # "" /\ a.content # ""

\* C11: an add_comment request of a logged-in user on an id without an
\* Article is answered 404 and changes nothing; with empty content it is
\* redirected to the article's view with a message and changes nothing; with
\* non-empty content on an existing Article A it goes on to its insert, which
\* adds exactly one Comment with the submitted content, the user as
\* commenter and A as parent, so that A has one comment more and every other
\* article the comments it had.
C11_AddComment ==
    [][\A s \in Sessions, id \in ArticleIds :
          /\ \A c \in CommentContents :
                (session[s] # 0 /\ add_comment(s, id, c))
                => (/\ store' = store
                    /\ session' = session
                    /\ IF id \notin ArticleIdsInUse
                          THEN resp' = Response(404, "", "") /\ req' = req
                          ELSE IF c = ""
                          THEN /\ resp' = Response(302, "article",
                                                   "comment_required")
                               /\ req' = req
                          ELSE req'[s] = [pc |-> "add_comment_commit",
                                          article_id |-> id, content |-> c,
                                          user_id |-> session[s]])
          /\ (/\ req[s].pc = "add_comment_commit"
              /\ req[s].article_id = id
              /\ id \in ArticleIdsInUse
              /\ add_comment_commit(s))
             => (/\ \E row \in comments' :
                       /\ row.id \notin {c.id : c \in comments}
                       /\ comments' = comments \cup {row}
                       /\ row.content = req[s].content
                       /\ row.user_id = req[s].user_id
                       /\ row.article_id = id
                 /\ Cardinality({c \in comments' : c.article_id = id})
                       = Cardinality({c \in comments : c.article_id = id}) + 1
                 /\ \A o \in ArticleIds \ {id} :
                       {c \in comments' : c.article_id = o}
                          = {c \in comments : c.article_id = o}
                 /\ articles' = articles
                 /\ users' = users
                 /\ resp' = Response(302, "article", "comment_posted"))]_vars

\* a comment was posted on an article that had one already, beside another
\* article
C11_Witness ==
    /\ resp.msg = "comment_posted"
    /\ Cardinality(articles) = 2
    /\ \E a \in articles : Cardinality(CommentsOf(a.id)) = 2

\* C12: a new_article POST of a logged-in user with an empty title or an
\* empty content inserts no Article, changes nothing in the store, and is
\* answered by the form rendered again (status 200), not by a redirect.
C12_EmptyNewArticleRejected ==
    [][\A s \in Sessions, t \in Titles, c \in Contents :
          (session[s] # 0 /\ (t = "" \/ c = "") /\ new_article(s, "POST", t, c))
          => (/\ store' = store
              /\ session' = session
              /\ resp'.status = 200
              /\ resp'.view = "edit_article"
              /\ resp'.msg = "title_content_required")]_vars

\* the form was rendered again for a logged-in user who has an article
C12_Witness ==
    /\ resp = Response(200, "edit_article", "title_content_required")
    /\ \E s \in Sessions, a \in articles : a.user_id = session[s]

\* C13: a login request (GET or POST, any credentials) and a register
\* request (any fields) of a session logged in as U are redirected to the
\* listing; the session still identifies U, no User row is inserted, and no
\* lookup or insert is left pending.
C13_AuthenticatedShortCircuit ==
    [][\A s \in Sessions, e \in Emails, p \in Passwords :
          (/\ session[s] # 0
           /\ \/ \E m \in Methods : login(s, m, e, p)
              \/ \E u \in Usernames : register(s, u, e, p))
          => (/\ resp' = Response(302, "index", "")
              /\ session' = session
              /\ users' = users
              /\ req' = req)]_vars

\* a logged-in session was redirected to the listing while a second user,
\* whose credentials it could have submitted, is registered
C13_Witness ==
    /\ resp = Response(302, "index", "")
    /\ Cardinality(users) = 2
    /\ \E s \in Sessions : session[s] # 0

\* C17: an edit_article POST of the owner of article A leaves A with exactly
\* the submitted title and content, empty or not, and with its id, owner and
\* timestamp, leaves every other row as it was, and is redirected to A's
\* view; an edit_article GET of the owner changes nothing and renders the
\* form.
C17_OwnerEditOverwrites ==
    [][\A s \in Sessions, id \in ArticleIds, t \in Titles, c \in Contents :
          (/\ session[s] # 0
           /\ \E a \in articles : a.id = id /\ a.user_id = session[s])
          => /\ edit_article(s, id, "POST", t, c)
                => (/\ Cardinality(articles') = Cardinality(articles)
                    /\ \A a \in articles :
                          IF a.id = id
                             THEN [id |-> id, title |-> t, content |-> c,
                                   date_posted |-> a.date_posted,
                                   user_id |-> a.user_id] \in articles'
                             ELSE a \in articles'
                    /\ users' = users
                    /\ comments' = comments
                    /\ resp' = Response(302, "article", "article_updated"))
             /\ edit_article(s, id, "GET", t, c)
                => (/\ store' = store
                    /\ resp' = Response(200, "edit_article", ""))]_vars

\* the owner's edit was accepted and left an article with an empty title
C17_Witness ==
    /\ resp.msg = "article_updated"
    /\ \E a \in articles : a.title = "" /\ a.content # ""

\* C16: however an add_comment request on article A interleaves with a
\* delete_article request on A, once no request is in flight the store holds
\* no Comment whose parent Article is absent.
C16_NoOrphanAfterRace ==
    (\A s \in Sessions : req[s] = Idle)
    => \A c \in comments : \E a \in articles : a.id = c.article_id

\* C14: the removal of user U through the store removes exactly U, the
\* articles of U, the comments of U and the comments on the articles of U
\* (whoever wrote them); when no reference was dangling before, none is
\* after; and a later view or listing returns only rows that are stored
\* (a step of index is first recognised by the view of its response).
C14_DeleteUserCascades ==
    [][/\ \A uid \in 1..MaxUsers :
             delete_user(uid)
             => (/\ \A u \in users : u \in users' <=> u.id # uid
                 /\ users' \subseteq users
                 /\ \A a \in articles : a \in articles' <=> a.user_id # uid
                 /\ articles' \subseteq articles
                 /\ \A c \in comments :
                       c \in comments'
                       <=> (/\ c.user_id # uid
                            /\ ~\E a \in articles :
                                  a.id = c.article_id /\ a.user_id = uid)
                 /\ comments' \subseteq comments
                 /\ C9_NoOrphans => C9_NoOrphans')
       /\ \A s \in Sessions :
             /\ \A id \in ArticleIds :
                   article(s, id)
                   => (resp'.status = 200 <=> \E a \in articles : a.id = id)
             /\ (resp'.view = "index" /\ index(s))
                => {resp'.listing[i] : i \in DOMAIN resp'.listing}
                      = {a.id : a \in articles}]_vars

\* a user was removed, and an article and a comment with it, while the other
\* user, an article and a comment on it remain
C14_Witness ==
    /\ Cardinality(users) = 1
    /\ Cardinality(articles) = 1
    /\ articleSeq = 2
    /\ Cardinality(comments) = 1
    /\ commentSeq = 2
    /\ C9_NoOrphans

\* C18: in every step, an Article that stays keeps its owner and its creation
\* timestamp, a Comment that stays keeps its content, commenter, parent
\* Article and creation timestamp, and a Comment goes only in a step in
\* which its parent Article or its User goes.
C18_CreationFieldsFrozen ==
    [][/\ \A a \in articles : \A b \in articles' :
             a.id = b.id
             => b.user_id = a.user_id /\ b.date_posted = a.date_posted
       /\ \A c \in comments :
             \/ c \in comments'
             \/ /\ \A d \in comments' : d.id # c.id
                /\ \/ \E a \in articles :
                         a.id = c.article_id /\ ArticlesById(a.id)' = {}
                   \/ \E u \in users :
                         u.id = c.user_id /\ u \notin users']_vars

\* an article was edited after the clock advanced and holds a comment written
\* later than the article, after another comment went with its article or
\* its user
C18_Witness ==
    /\ \E a \in articles :
          /\ a.title = ""
          /\ a.date_posted < now
          /\ \E c \in comments :
                c.article_id = a.id /\ c.date_posted > a.date_posted
    /\ Cardinality(comments) < commentSeq

\* the queue of session s holds the message id
Queued(s, id) == \E i \in DOMAIN flashes[s] : flashes[s][i].id = id

\* the step is a request of session s that is answered with a rendered page
Renders(s) ==
    /\ resp'.status = 200
    /\ Answered(s)
    /\ \/ index(s)
       \/ \E article_id \in ArticleIds : article(s, article_id)
       \/ \E method \in Methods, email \in Emails, password \in Passwords :
             login(s, method, email, password)

\* a request of session s that fails on a path that redirects: a username
\* or an email in use, an empty comment, or an anonymous caller of a handler
\* that requires login
FailedRequest(s) ==
    \/ /\ ~is_authenticated(s)
       /\ \E username \in Usernames, user \in users :
             /\ UsersByUsername(username) # {}
             /\ register(s, username, user.email, "pw2")
    \/ /\ req[s].pc = "register_email"
       /\ UsersByEmail(req[s].email) # {}
       /\ register_email(s)
    \/ /\ is_authenticated(s)
       /\ \E article_id \in ArticleIdsInUse : add_comment(s, article_id, "")
    \/ /\ ~is_authenticated(s)
       /\ \/ logout(s)
          \/ \E article_id \in ArticleIds : add_comment(s, article_id, "")

\* the step is a request of session s that fails and is answered with a
\* redirect
FailsWithRedirect(s) ==
    /\ Answered(s)
    /\ FailedRequest(s)

\* every flashed message is either queued once, in the session it was
\* flashed in and nowhere else, and not yet shown, or queued nowhere and
\* shown exactly once, to that session
ShownOnce ==
    \A id \in 1..flashSeq :
       LET e == flashLog[id]
       IN  \/ /\ e.shown = <<>>
              /\ Cardinality({i \in DOMAIN flashes[e.session] :
                                 flashes[e.session][i].id = id}) = 1
              /\ \A t \in Sessions \ {e.session} : ~Queued(t, id)
           \/ /\ e.shown = <<e.session>>
              /\ \A t \in Sessions : ~Queued(t, id)

\* C15: every flashed message is either queued once, in the session it was
\* flashed in and nowhere else, and not yet shown, or queued nowhere and
\* shown exactly once, to that session; a message is shown only by a page
\* rendered for its session, and such a page shows every message queued for
\* the session, so the first page after the flash shows it; a request that
\* fails with a redirect has queued a message for its session.
C15_FlashShownOnce ==
    [][/\ ShownOnce'
       /\ \A id \in 1..flashSeq :
             flashLog'[id].shown # flashLog[id].shown
             => Renders(flashLog[id].session)
       /\ \A s \in Sessions :
             /\ Renders(s) => flashes'[s] = <<>>
             /\ FailsWithRedirect(s)
                => /\ resp'.status = 302
                   /\ flashSeq' = flashSeq + 1
                   /\ flashes'[s] = Append(flashes[s],
                                           [id |-> flashSeq',
                                            msg |-> resp'.msg])
                   /\ resp'.msg # ""]_vars

\* the index page has just shown, to the session that had been redirected
\* with it, the message flashed last, while the other session still holds
\* a message of its own that no page has shown
C15_Witness ==
    /\ resp.status = 200
    /\ resp.view = "index"
    /\ flashSeq >= 2
    /\ flashLog[flashSeq].shown = <<flashLog[flashSeq].session>>
    /\ \E id \in 1..flashSeq :
          /\ flashLog[id].session # flashLog[flashSeq].session
          /\ flashLog[id].shown = <<>>
          /\ Queued(flashLog[id].session, id)

====
